---- MODULE Spec2Model ----
(***************************************************************************)
(* Model of the trade-session engine of trade-with-me-backend              *)
(* (src/src/trade_session.rs): the registry of sessions behind one mutex,  *)
(* the per-session TradeState (items, user_acted, status), the client map, *)
(* and the operations of SharedSessions.  Every operation takes the        *)
(* registry mutex for its whole body, so each is one atomic action.        *)
(*                                                                         *)
(* Amounts (rust_decimal::Decimal) are integers counting units of the      *)
(* smallest scale in use; all modelled amounts are far below Decimal::MAX. *)
(***************************************************************************)
EXTENDS Integers, FiniteSets, Sequences, TLC

VARIABLES sessions, channels, last, tx, tasks

vars == <<sessions, channels, last, tx, tasks>>

\* ------------------------------------------------------------------ bounds

\* Largest amount a caller passes to add_tokens_offer / withdraw_tokens.
MaxAmount == 2
\* Largest balance a token-amount cache entry holds.
MaxBalance == 2
\* Capacity of an outbound channel, the argument of mpsc::channel chosen by
\* the caller of add_client.
ChannelCapacity == 2
\* Commands the readers of the push adapter handle, all connections together.
MaxFrames == 2

\* ------------------------------------------------------------ value domains

None == "None"

SessionIds == {"s1"}
ConnectionIds == {"c1", "c2"}
\* The connections the engine specification registers.
EngineConnections == {"c1"}
Users == {"Alice", "Bob", "Charlie"}
Mints == {"TokenA", "TokenB"}

\* Amounts a caller may pass: negative, zero and positive.
Amounts == (0 - 1)..MaxAmount

TradeStatus ==
    {"Trading", "OneUserAccepted", "Accepted",
     "TransactionCreated", "OneUserSigned", "TransactionSent"}

\* What TokenAmountCache::get_token_amounts(user) can return at the time of a
\* call: None (never inserted, or expired after 600 s) or the map of the
\* user's balances, which fetch_tokens fills with the positive balances only.
\* The cache is a separate object under its own mutex, written by the HTTP
\* path at any time, so each lookup draws its result from this set.
CacheEntries ==
    {[present |-> FALSE, amounts |-> [x \in {} |-> 0]]}
        \cup {[present |-> TRUE, amounts |-> f] :
                 f \in UNION {[ms -> 1..MaxBalance] : ms \in SUBSET Mints}}

EmptyMap == [x \in {} |-> 0]

\* #[derive(Default)] TradeState: no items, user_acted None, status Trading.
DefaultTradeState ==
    [items |-> EmptyMap, user_acted |-> None, status |-> "Trading"]

\* #[derive(Default)] TradeSession.
DefaultTradeSession ==
    [state |-> DefaultTradeState, ws_clients |-> {}]

Min(a, b) == IF a <= b THEN a ELSE b

\* What a call found under its session id when it took the registry mutex.
NoSession ==
    [exists |-> FALSE, state |-> DefaultTradeState, ws_clients |-> {}]

Found(sess, s) ==
    IF s \in DOMAIN sess
    THEN [exists |-> TRUE, state |-> sess[s].state,
          ws_clients |-> sess[s].ws_clients]
    ELSE NoSession

\* An outbound channel whose receiver has been dropped, and a fresh one.
ClosedChannel == [closed |-> TRUE, buf |-> <<>>]
OpenChannel == [closed |-> FALSE, buf |-> <<>>]
NoChannels == [c \in ConnectionIds |-> ClosedChannel]

\* The record of the last call: its arguments, the cached balance it read
\* (0 when it read none), what it returned, the session and the queues as it
\* found them, and whether the cache held a balance of the mint for the user.
NoCall ==
    [op |-> "init", session |-> None, conn |-> None, user |-> None,
     mint |-> None, amount |-> 0, available |-> 0, result |-> "Ok",
     pre |-> NoSession, chans |-> NoChannels, cached |-> FALSE]

Call(op, s, u, m, a, av, res) ==
    [op |-> op, session |-> s, conn |-> None, user |-> u, mint |-> m,
     amount |-> a, available |-> av, result |-> res,
     pre |-> Found(sessions, s), chans |-> channels, cached |-> FALSE]

\* The record of a step that is no engine call: what it was, the connection
\* that took it, and the session and the queues as it found them.
Local(op, s, c) ==
    [NoCall EXCEPT !.op = op, !.session = s, !.conn = c,
                   !.pre = Found(sessions, s), !.chans = channels]

\* The insert writes back a map that holds the new key alone.
Put_LosesOthers(f, k, v) == [x \in {k} |-> v]

\* HashMap::insert / entry().or_insert on a map modelled as a function.
Put(f, k, v) == [x \in DOMAIN f \cup {k} |-> IF x = k THEN v ELSE f[x]]

\* HashMap::remove.
Remove(f, k) == [x \in DOMAIN f \ {k} |-> f[x]]

\* ------------------------------------------------- helpers of the operations

\* The amount guard lets a zero amount through.
NonPositive_Strict(token_amount) == token_amount < 0

\* token_amount <= dec!(0)
NonPositive(token_amount) == token_amount <= 0

\* The phase test lets an accepted trade through.
StatusAllowsMutation_AcceptedToo(status) ==
    status \in {"Trading", "OneUserAccepted", "Accepted"}

\* matches!(status, TradeStatus::Trading | TradeStatus::OneUserAccepted)
StatusAllowsMutation(status) ==
    status \in {"Trading", "OneUserAccepted"}

\* token_amounts.map_or_else(|| 0, |amounts| amounts.get(mint).map_or_else(|| 0, ..))
\* The cache holds a balance of the mint for the user.
Cached(entry, token_mint) ==
    entry.present /\ token_mint \in DOMAIN entry.amounts

\* A miss puts no ceiling on the offer.
AvailableTokens_MissUnlimited(entry, token_mint) ==
    IF Cached(entry, token_mint) THEN entry.amounts[token_mint]
    ELSE MaxBalance

AvailableTokens(entry, token_mint) ==
    IF ~entry.present THEN 0
    ELSE IF token_mint \in DOMAIN entry.amounts THEN entry.amounts[token_mint]
    ELSE 0

\* The offer is accumulated without the ceiling of the cached balance.
OfferedAmount_NoCeiling(trade_items, token_mint, token_amount, available_tokens) ==
    IF token_mint \in DOMAIN trade_items
    THEN trade_items[token_mint] + token_amount
    ELSE Min(token_amount, available_tokens)

\* entry(mint).and_modify(|x| *x = min(*x + amount, available))
\*            .or_insert(min(amount, available))
OfferedAmount(trade_items, token_mint, token_amount, available_tokens) ==
    IF token_mint \in DOMAIN trade_items
    THEN Min(trade_items[token_mint] + token_amount, available_tokens)
    ELSE Min(token_amount, available_tokens)

\* The limit is tested one user too late.
TwoUsersInvolved_OffByOne(items) == Cardinality(DOMAIN items) = 3

\* Only the users with a non-empty bundle count toward the limit.
TwoUsersInvolved_NonEmpty(items) ==
    Cardinality({u \in DOMAIN items : DOMAIN items[u] # {}}) = 2

\* trade_session.state.items.len() == 2
TwoUsersInvolved(items) == Cardinality(DOMAIN items) = 2

\* A successful offer or withdrawal forgets to revert the acceptance.
MutatedState_KeepsAcceptance(state, new_state_items) ==
    [state EXCEPT !.items = new_state_items]

\* trade_session.state = TradeState { items, user_acted: None, status: Trading }
MutatedState(state, new_state_items) ==
    [items |-> new_state_items, user_acted |-> None, status |-> "Trading"]

\* The withdrawal is subtracted without the floor at zero.
WithdrawnAmount_NoFloor(amount, token_amount) == amount - token_amount

\* *amount = if token_amount >= *amount { 0 } else { *amount - token_amount }
WithdrawnAmount(amount, token_amount) ==
    IF token_amount >= amount THEN 0 ELSE amount - token_amount

\* The user's bundle after the and_modify and the removal of a zero entry.
WithdrawnItems(trade_items, token_mint, token_amount) ==
    IF token_mint \notin DOMAIN trade_items THEN trade_items
    ELSE LET a == WithdrawnAmount(trade_items[token_mint], token_amount)
         IN  IF a = 0 THEN Remove(trade_items, token_mint)
             ELSE Put(trade_items, token_mint, a)

\* The first acceptance does not record who accepted.
AcceptedState_NoRecord(state, user_address) ==
    IF state.user_acted # None
    THEN IF state.user_acted # user_address
         THEN [state EXCEPT !.user_acted = None, !.status = "Accepted"]
         ELSE state
    ELSE [state EXCEPT !.status = "OneUserAccepted"]

\* The second acceptance does not clear user_acted.
AcceptedState_KeepsActed(state, user_address) ==
    IF state.user_acted # None
    THEN IF state.user_acted # user_address
         THEN [state EXCEPT !.status = "Accepted"]
         ELSE state
    ELSE [state EXCEPT !.user_acted = user_address,
                       !.status = "OneUserAccepted"]

\* The second acceptance is not compared with the first acceptor.
AcceptedState_AnySecond(state, user_address) ==
    IF state.user_acted # None
    THEN [state EXCEPT !.user_acted = None, !.status = "Accepted"]
    ELSE [state EXCEPT !.user_acted = user_address,
                       !.status = "OneUserAccepted"]

\* The body of accept_trade on a session whose status admits it.
AcceptedState(state, user_address) ==
    IF state.user_acted # None
    THEN IF state.user_acted # user_address
         THEN [state EXCEPT !.user_acted = None, !.status = "Accepted"]
         ELSE state
    ELSE [state EXCEPT !.user_acted = user_address,
                       !.status = "OneUserAccepted"]

\* ------------------------------------------------------------- operations
\* Each yields [sessions, available, result]: the registry after the call,
\* the cached balance it read (0 when it read none) and what it returned.

Outcome(sess, av, res) == [sessions |-> sess, available |-> av, result |-> res]

AddTokensOffer(sess, session_id, user_address, token_mint, amount, available) ==
    IF NonPositive(amount) THEN Outcome(sess, 0, "Ok")
    ELSE IF session_id \notin DOMAIN sess THEN Outcome(sess, 0, "UnknownSession")
    ELSE LET state == sess[session_id].state IN
         IF ~StatusAllowsMutation(state.status)
         THEN Outcome(sess, 0, "InvalidPhase")
         ELSE IF user_address \in DOMAIN state.items
         THEN LET offered == OfferedAmount(state.items[user_address], token_mint,
                                          amount, available)
                  new_items == Put(state.items, user_address,
                                   Put(state.items[user_address], token_mint, offered))
              IN  Outcome([sess EXCEPT ![session_id].state = MutatedState(state, new_items)],
                          available, "Ok")
         ELSE IF TwoUsersInvolved(state.items)
         THEN Outcome(sess, available, "TooManyParties")
         ELSE LET new_items ==
                      Put(state.items, user_address,
                          Put(EmptyMap, token_mint,
                              Min(amount, available)))
              IN  Outcome([sess EXCEPT ![session_id].state = MutatedState(state, new_items)],
                          available, "Ok")

\* The state replacement runs for a user without a bundle too.
WithdrawTokens_UnknownUserResets(sess, session_id, user_address, token_mint, token_amount) ==
    IF NonPositive(token_amount) THEN Outcome(sess, 0, "Ok")
    ELSE IF session_id \notin DOMAIN sess THEN Outcome(sess, 0, "Ok")
    ELSE LET state == sess[session_id].state IN
         IF ~StatusAllowsMutation(state.status)
         THEN Outcome(sess, 0, "InvalidPhase")
         ELSE IF user_address \in DOMAIN state.items
         THEN LET new_items ==
                      Put(state.items, user_address,
                          WithdrawnItems(state.items[user_address],
                                         token_mint, token_amount))
              IN  Outcome([sess EXCEPT ![session_id].state = MutatedState(state, new_items)],
                          0, "Ok")
         ELSE Outcome([sess EXCEPT ![session_id].state = MutatedState(state, state.items)],
                      0, "UnknownUserInSession")

\* A bundle that the withdrawal empties is removed with its user key.
WithdrawTokens_DropsEmptyBundle(sess, session_id, user_address, token_mint, token_amount) ==
    IF NonPositive(token_amount) THEN Outcome(sess, 0, "Ok")
    ELSE IF session_id \notin DOMAIN sess THEN Outcome(sess, 0, "Ok")
    ELSE LET state == sess[session_id].state IN
         IF ~StatusAllowsMutation(state.status)
         THEN Outcome(sess, 0, "InvalidPhase")
         ELSE IF user_address \in DOMAIN state.items
         THEN LET trade_items == WithdrawnItems(state.items[user_address],
                                                token_mint, token_amount)
                  new_items == IF trade_items = EmptyMap
                               THEN Remove(state.items, user_address)
                               ELSE Put(state.items, user_address, trade_items)
              IN  Outcome([sess EXCEPT ![session_id].state = MutatedState(state, new_items)],
                          0, "Ok")
         ELSE Outcome(sess, 0, "UnknownUserInSession")

WithdrawTokens(sess, session_id, user_address, token_mint, token_amount) ==
    IF NonPositive(token_amount) THEN Outcome(sess, 0, "Ok")
    \* no else branch on the session lookup: an unknown session falls to Ok(())
    ELSE IF session_id \notin DOMAIN sess THEN Outcome(sess, 0, "Ok")
    ELSE LET state == sess[session_id].state IN
         IF ~StatusAllowsMutation(state.status)
         THEN Outcome(sess, 0, "InvalidPhase")
         ELSE IF user_address \in DOMAIN state.items
         THEN LET new_items ==
                      Put(state.items, user_address,
                          WithdrawnItems(state.items[user_address],
                                         token_mint, token_amount))
              IN  Outcome([sess EXCEPT ![session_id].state = MutatedState(state, new_items)],
                          0, "Ok")
         ELSE Outcome(sess, 0, "UnknownUserInSession")

\* The session is looked up with entry().or_default(), which creates it.
AcceptTrade_CreatesSession(sess, session_id, user_address) ==
    IF session_id \notin DOMAIN sess
    THEN Outcome(Put(sess, session_id, DefaultTradeSession), 0, "UnknownSession")
    ELSE LET state == sess[session_id].state IN
         IF ~StatusAllowsMutation(state.status)
         THEN Outcome(sess, 0, "InvalidPhase")
         ELSE Outcome([sess EXCEPT ![session_id].state =
                                        AcceptedState(state, user_address)],
                      0, "Ok")

AcceptTrade(sess, session_id, user_address) ==
    IF session_id \notin DOMAIN sess THEN Outcome(sess, 0, "UnknownSession")
    ELSE LET state == sess[session_id].state IN
         IF ~StatusAllowsMutation(state.status)
         THEN Outcome(sess, 0, "InvalidPhase")
         ELSE Outcome([sess EXCEPT ![session_id].state =
                                        AcceptedState(state, user_address)],
                      0, "Ok")

\* The message broadcast_current_state builds from the session's state.
TradeStateUpdate(state) ==
    [type |-> "TradeStateUpdate", offers |-> state.items,
     user_acted |-> state.user_acted, status |-> state.status]

\* A message is put in front of the older ones.
TrySend_Prepends(ch, msg) ==
    IF ch.closed \/ Len(ch.buf) >= ChannelCapacity THEN ch
    ELSE [ch EXCEPT !.buf = <<msg>> \o @]

\* A message is enqueued although the receiver is gone.
TrySend_IntoClosed(ch, msg) ==
    IF Len(ch.buf) >= ChannelCapacity THEN ch
    ELSE [ch EXCEPT !.buf = Append(@, msg)]

\* The queue takes a message beyond its capacity.
TrySend_Unbounded(ch, msg) ==
    IF ch.closed THEN ch ELSE [ch EXCEPT !.buf = Append(@, msg)]

\* tx.try_send(msg): enqueued unless the receiver is gone or the queue is full.
TrySend(ch, msg) ==
    IF ch.closed \/ Len(ch.buf) >= ChannelCapacity THEN ch
    ELSE [ch EXCEPT !.buf = Append(@, msg)]

\* ----------------------------------------------------- transaction service

\* offers.retain(|_, amount| *amount > dec!(0.0))
Retain(offers) == [t \in {k \in DOMAIN offers : offers[k] > 0} |-> offers[t]]

\* The larger side of a common mint keeps its whole amount.
CancelFirst_KeepsLarger(user1_offers, user2_offers) ==
    [t \in DOMAIN user1_offers |->
        IF t \in DOMAIN user2_offers
        THEN IF user2_offers[t] > user1_offers[t] THEN 0
             ELSE IF user2_offers[t] < user1_offers[t] THEN user1_offers[t]
             ELSE 0
        ELSE user1_offers[t]]

\* The equal amounts of a common mint are not cancelled on the first side.
CancelFirst_KeepsEqual(user1_offers, user2_offers) ==
    [t \in DOMAIN user1_offers |->
        IF t \in DOMAIN user2_offers
        THEN IF user2_offers[t] > user1_offers[t] THEN 0
             ELSE user1_offers[t] - user2_offers[t] + (IF user2_offers[t] = user1_offers[t] THEN user1_offers[t] ELSE 0)
        ELSE user1_offers[t]]

\* offers1 after the loop of cancel_out_trade_tokens, before the retain.
CancelFirst(user1_offers, user2_offers) ==
    [t \in DOMAIN user1_offers |->
        IF t \in DOMAIN user2_offers
        THEN IF user2_offers[t] > user1_offers[t] THEN 0
             ELSE IF user2_offers[t] < user1_offers[t]
                  THEN user1_offers[t] - user2_offers[t]
             ELSE 0
        ELSE user1_offers[t]]

\* The smaller side of a common mint is not zeroed on the second side.
CancelSecond_KeepsSmaller(user1_offers, user2_offers) ==
    [t \in DOMAIN user2_offers |->
        IF t \in DOMAIN user1_offers
        THEN IF user2_offers[t] > user1_offers[t]
             THEN user2_offers[t] - user1_offers[t]
             ELSE IF user2_offers[t] < user1_offers[t] THEN user2_offers[t]
             ELSE 0
        ELSE user2_offers[t]]

\* offers2 after the loop of cancel_out_trade_tokens, before the retain.
CancelSecond(user1_offers, user2_offers) ==
    [t \in DOMAIN user2_offers |->
        IF t \in DOMAIN user1_offers
        THEN IF user2_offers[t] > user1_offers[t]
             THEN user2_offers[t] - user1_offers[t]
             ELSE 0
        ELSE user2_offers[t]]

cancel_out_trade_tokens(user1_offers, user2_offers) ==
    <<Retain(CancelFirst(user1_offers, user2_offers)),
      Retain(CancelSecond(user1_offers, user2_offers))>>

\* Addresses that Pubkey::from_str rejects; the engine takes any string.
UnparsableAddresses == {"Charlie"}

\* A public key: a wallet <<owner, None>>, a mint <<None, mint>>, or the
\* associated token address of (owner, mint).
Wallet(user) == <<user, None>>
MintKey(token) == <<None, token>>
get_associated_token_address(owner, token) == <<owner, token>>

\* AccountMeta::new(key, is_signer) and AccountMeta::new_readonly.
AccountMeta(pubkey, is_signer, is_writable) ==
    [pubkey |-> pubkey, is_signer |-> is_signer, is_writable |-> is_writable]

NoTransaction ==
    [payer |-> None, accounts |-> <<>>, data |-> <<>>, recent_blockhash |-> None]

\* The orders in which a HashMap may iterate over the keys S.
RECURSIVE Orders(_)
Orders(S) ==
    IF S = {} THEN {<<>>}
    ELSE UNION {{<<k>> \o rest : rest \in Orders(S \ {k})} : k \in S}

\* The vectors create_transaction pushes to and maps over.
Atas(owner, tokens) ==
    [i \in 1..Len(tokens) |-> get_associated_token_address(owner, tokens[i])]
MintKeys(tokens) == [i \in 1..Len(tokens) |-> MintKey(tokens[i])]
AmountsOf(offers, tokens) == [i \in 1..Len(tokens) |-> offers[tokens[i]]]
\* Every listed account is read-only.
Metas_NeverWritable(keys, is_writable) ==
    [i \in 1..Len(keys) |-> AccountMeta(keys[i], FALSE, FALSE)]

Metas(keys, is_writable) ==
    [i \in 1..Len(keys) |-> AccountMeta(keys[i], FALSE, is_writable)]

TxOutcome(res, asked, transaction) ==
    [result |-> res, blockhash_requested |-> asked, transaction |-> transaction]

\* items.len() != 2
WrongParties(items) == Cardinality(DOMAIN items) # 2

\* offers1.is_empty() && offers2.is_empty()
NoOffers(offers1, offers2) == offers1 = EmptyMap /\ offers2 = EmptyMap

\* The keys of `offers` in the order in which `order` ranks all mints.
Iterate(offers, order) == SelectSeq(order, LAMBDA k : k \in DOMAIN offers)

\* create_transaction from the residues on: the four parallel vectors, the
\* account list, the instruction data, the blockhash and the fee payer.
BuildTransaction(user1, user2, offers1, offers2, order1, order2, rpc_ok) ==
    LET o1 == Iterate(offers1, order1)
        o2 == Iterate(offers2, order2)
        sender_atas == Atas(user1, o1) \o Atas(user2, o2)
        receiver_atas == Atas(user2, o1) \o Atas(user1, o2)
        token_mints == MintKeys(o1) \o MintKeys(o2)
        amounts == AmountsOf(offers1, o1) \o AmountsOf(offers2, o2)
        accounts ==
            <<AccountMeta(Wallet(user1), TRUE, TRUE),
              AccountMeta(Wallet(user2), TRUE, TRUE)>>
            \o Metas(token_mints, FALSE)
            \o Metas(sender_atas \o receiver_atas, TRUE)
        used == {user1, user2} \cup DOMAIN offers1 \cup DOMAIN offers2
    IN
    IF used \cap UnparsableAddresses # {}
    THEN TxOutcome("BadAddress", FALSE, NoTransaction)
    ELSE IF ~rpc_ok
    THEN TxOutcome("Rpc", TRUE, NoTransaction)
    ELSE TxOutcome("Ok", TRUE,
                   [payer |-> Wallet(user1), accounts |-> accounts,
                    data |-> amounts, recent_blockhash |-> "hash"])

\* The builder goes on with two empty residues.
CreateTransaction_BuildsEmpty(items, users, order1, order2, rpc_ok) ==
    IF WrongParties(items)
    THEN TxOutcome("InvalidParties", FALSE, NoTransaction)
    ELSE LET residues == cancel_out_trade_tokens(items[users[1]], items[users[2]])
         IN BuildTransaction(users[1], users[2], residues[1], residues[2],
                             order1, order2, rpc_ok)

\* create_transaction on `items`, with `users` the order in which the map
\* yields its keys, order1 and order2 the orders in which the residues
\* yield theirs, and rpc_ok whether get_latest_blockhash succeeds.
CreateTransaction(items, users, order1, order2, rpc_ok) ==
    IF WrongParties(items)
    THEN TxOutcome("InvalidParties", FALSE, NoTransaction)
    ELSE LET residues == cancel_out_trade_tokens(items[users[1]], items[users[2]])
         IN IF NoOffers(residues[1], residues[2])
            THEN TxOutcome("EmptyTrade", FALSE, NoTransaction)
            ELSE BuildTransaction(users[1], users[2], residues[1], residues[2],
                                  order1, order2, rpc_ok)

\* The record of the transaction service's calls.
NoTx ==
    [stage |-> "none", items |-> EmptyMap, users |-> <<>>,
     in1 |-> EmptyMap, in2 |-> EmptyMap, out1 |-> EmptyMap, out2 |-> EmptyMap,
     first1 |-> EmptyMap, first2 |-> EmptyMap,
     result |-> "Ok", blockhash_requested |-> FALSE,
     transaction |-> NoTransaction]

\* The bundles the transaction service is given: the engine keeps amounts
\* at zero or above, and an entry of amount zero can be left by a withdrawal.
Bundles(MS) == UNION {[D -> 0..MaxAmount] : D \in SUBSET MS}

CancelMints == Mints \cup {"TokenC"}

\* --------------------------------------------------------------- actions

\* Registration starts the session afresh.
add_client_ResetsState(s, c) ==
    /\ sessions' =
         IF s \in DOMAIN sessions
         THEN [sessions EXCEPT ![s].ws_clients = @ \cup {c},
                               ![s].state = DefaultTradeState]
         ELSE Put(sessions, s, [DefaultTradeSession EXCEPT !.ws_clients = {c}])
    /\ last' = [Call("add_client", s, None, None, 0, 0, "Ok") EXCEPT !.conn = c]
    /\ UNCHANGED <<channels, tx>>

add_client(s, c) ==
    /\ sessions' =
         IF s \in DOMAIN sessions
         THEN [sessions EXCEPT ![s].ws_clients = @ \cup {c}]
         ELSE Put(sessions, s, [DefaultTradeSession EXCEPT !.ws_clients = {c}])
    /\ last' = [Call("add_client", s, None, None, 0, 0, "Ok") EXCEPT !.conn = c]
    /\ UNCHANGED <<channels, tx>>

\* The session is dropped with its last connection.
remove_client_DropsEmptySession(s, c) ==
    /\ sessions' =
         IF s \in DOMAIN sessions
         THEN IF sessions[s].ws_clients \subseteq {c}
              THEN Remove(sessions, s)
              ELSE [sessions EXCEPT ![s].ws_clients = @ \ {c}]
         ELSE sessions
    /\ last' = [Call("remove_client", s, None, None, 0, 0, "Ok") EXCEPT !.conn = c]
    /\ UNCHANGED <<channels, tx>>

remove_client(s, c) ==
    /\ sessions' =
         IF s \in DOMAIN sessions
         THEN [sessions EXCEPT ![s].ws_clients = @ \ {c}]
         ELSE sessions
    /\ last' = [Call("remove_client", s, None, None, 0, 0, "Ok") EXCEPT !.conn = c]
    /\ UNCHANGED <<channels, tx>>

\* The update goes to the connections of every session of the registry.
broadcast_current_state_ToEverySession(s) ==
    /\ channels' =
         IF s \in DOMAIN sessions
         THEN [c \in ConnectionIds |->
                 IF \E x \in DOMAIN sessions : c \in sessions[x].ws_clients
                 THEN TrySend(channels[c], TradeStateUpdate(sessions[s].state))
                 ELSE channels[c]]
         ELSE channels
    /\ last' = Call("broadcast_current_state", s, None, None, 0, 0, "Ok")
    /\ UNCHANGED <<sessions, tx>>

\* The update carries the state of a fresh session, not the current one.
broadcast_current_state_Stale(s) ==
    /\ channels' =
         IF s \in DOMAIN sessions
         THEN [c \in ConnectionIds |->
                 IF c \in sessions[s].ws_clients
                 THEN TrySend(channels[c], TradeStateUpdate(DefaultTradeState))
                 ELSE channels[c]]
         ELSE channels
    /\ last' = Call("broadcast_current_state", s, None, None, 0, 0, "Ok")
    /\ UNCHANGED <<sessions, tx>>

broadcast_current_state(s) ==
    /\ channels' =
         IF s \in DOMAIN sessions
         THEN [c \in ConnectionIds |->
                 IF c \in sessions[s].ws_clients
                 THEN TrySend(channels[c], TradeStateUpdate(sessions[s].state))
                 ELSE channels[c]]
         ELSE channels
    /\ last' = Call("broadcast_current_state", s, None, None, 0, 0, "Ok")
    /\ UNCHANGED <<sessions, tx>>

add_tokens_offer(s, u, m, a) ==
    \E lookup \in {<<AvailableTokens(entry, m), Cached(entry, m)>> :
                      entry \in CacheEntries} :
        LET r == AddTokensOffer(sessions, s, u, m, a, lookup[1]) IN
        /\ sessions' = r.sessions
        /\ last' = [Call("add_tokens_offer", s, u, m, a, r.available, r.result)
                       EXCEPT !.cached = lookup[2]]
        /\ UNCHANGED <<channels, tx>>

withdraw_tokens(s, u, m, a) ==
    LET r == WithdrawTokens(sessions, s, u, m, a) IN
    /\ sessions' = r.sessions
    /\ last' = Call("withdraw_tokens", s, u, m, a, 0, r.result)
    /\ UNCHANGED <<channels, tx>>

accept_trade(s, u) ==
    LET r == AcceptTrade(sessions, s, u) IN
    /\ sessions' = r.sessions
    /\ last' = Call("accept_trade", s, u, None, 0, 0, r.result)
    /\ UNCHANGED <<channels, tx>>

\* The two stubs: they take the arguments and return Ok.
get_transaction_to_sign(s) ==
    /\ last' = Call("get_transaction_to_sign", s, None, None, 0, 0, "Ok")
    /\ UNCHANGED <<sessions, channels, tx>>

sign_transaction(s, signature) ==
    /\ last' = Call("sign_transaction", s, None, None, 0, 0, "Ok")
    /\ UNCHANGED <<sessions, channels, tx>>

\* cancel_out_trade_tokens on the pair of bundles at hand.
cancel ==
    /\ tx.stage = "input"
    /\ LET r == cancel_out_trade_tokens(tx.in1, tx.in2)
       IN tx' = [tx EXCEPT !.stage = "cancelled", !.out1 = r[1], !.out2 = r[2],
                           !.first1 = r[1], !.first2 = r[2]]
    /\ UNCHANGED <<sessions, channels, last, tasks>>

\* cancel_out_trade_tokens on the pair it returned.
cancel_again ==
    /\ tx.stage = "cancelled"
    /\ LET r == cancel_out_trade_tokens(tx.out1, tx.out2)
       IN tx' = [tx EXCEPT !.stage = "reapplied", !.in1 = tx.out1,
                           !.in2 = tx.out2, !.out1 = r[1], !.out2 = r[2]]
    /\ UNCHANGED <<sessions, channels, last, tasks>>

\* cancel_out_trade_tokens on the same two bundles, the other way round.
cancel_swapped ==
    /\ tx.stage = "cancelled"
    /\ LET r == cancel_out_trade_tokens(tx.in2, tx.in1)
       IN tx' = [tx EXCEPT !.stage = "swapped", !.in1 = tx.in2,
                           !.in2 = tx.in1, !.out1 = r[1], !.out2 = r[2]]
    /\ UNCHANGED <<sessions, channels, last, tasks>>

create_transaction ==
    /\ tx.stage = "items"
    /\ \E users \in Orders(DOMAIN tx.items), order1, order2 \in Orders(Mints), rpc_ok \in BOOLEAN :
         LET out == CreateTransaction(tx.items, users, order1, order2, rpc_ok)
             two == ~WrongParties(tx.items)
             in1 == IF two THEN tx.items[users[1]] ELSE EmptyMap
             in2 == IF two THEN tx.items[users[2]] ELSE EmptyMap
             r == cancel_out_trade_tokens(in1, in2)
         IN tx' = [tx EXCEPT !.stage = "created", !.users = users,
                             !.in1 = in1, !.in2 = in2,
                             !.out1 = r[1], !.out2 = r[2],
                             !.result = out.result,
                             !.blockhash_requested = out.blockhash_requested,
                             !.transaction = out.transaction]
    /\ UNCHANGED <<sessions, channels, last, tasks>>

\* ------------------------------------------------------------ push adapter

\* mpsc::channel(32) for a connection that is not registered yet.
channel(c) ==
    /\ channels[c].closed
    /\ \A s \in DOMAIN sessions : c \notin sessions[s].ws_clients
    /\ channels' = [channels EXCEPT ![c] = OpenChannel]
    /\ last' = Local("channel", None, c)
    /\ UNCHANGED <<sessions, tx>>

\* rx.recv(): the receiver takes the oldest message.
recv(c) ==
    /\ ~channels[c].closed
    /\ channels[c].buf # <<>>
    /\ channels' = [channels EXCEPT ![c].buf = Tail(@)]
    /\ last' = Local("recv", None, c)
    /\ UNCHANGED <<sessions, tx>>

\* The receiver is dropped, and with it what the queue held.
drop_receiver(c) ==
    /\ ~channels[c].closed
    /\ channels' = [channels EXCEPT ![c] = ClosedChannel]
    /\ last' = Local("drop_receiver", None, c)
    /\ UNCHANGED <<sessions, tx>>

\* handle_socket of one connection: where it stands (pc), its reader and
\* writer tasks, and of the reader's last dispatch: whether the engine call
\* succeeded (ok), the state it produced, whether a broadcast has carried
\* that state since (shown), and whether the step just taken was the
\* broadcast that follows a successful call (told) or the broadcast that
\* follows the registration (greeted), and how many broadcasts the reader
\* has made for its last frame.  For the order of the updates: how many of
\* the reader's calls changed the session (changes), the number of changes
\* the session had seen when each queued update was enqueued (stamps, in
\* queue order).
NoTask ==
    [pc |-> "start", reader |-> "reading", writer |-> "running", frames |-> 0,
     ok |-> FALSE, produced |-> DefaultTradeState, shown |-> FALSE,
     told |-> FALSE, greeted |-> FALSE, broadcasts |-> 0,
     changes |-> 0, stamps |-> <<>>]

NoTasks == [c \in ConnectionIds |-> NoTask]

\* The session a connection asked for, and the user behind it.
WsSession(c) == "s1"
WsUser(c) == IF c = "c1" THEN "Alice" ELSE "Bob"

RECURSIVE FramesOf(_, _)
FramesOf(t, CS) ==
    IF CS = {} THEN 0
    ELSE LET c == CHOOSE x \in CS : TRUE IN t[c].frames + FramesOf(t, CS \ {c})

\* How many states the session has been through: the calls that changed it.
RECURSIVE ChangesOf(_, _)
ChangesOf(t, CS) ==
    IF CS = {} THEN 0
    ELSE LET c == CHOOSE x \in CS : TRUE IN t[c].changes + ChangesOf(t, CS \ {c})

Version(t) == ChangesOf(t, ConnectionIds)

\* The reader is between frames and may take another one.
Reading(c) ==
    /\ tasks[c].pc = "running"
    /\ tasks[c].reader = "reading"
    /\ FramesOf(tasks, ConnectionIds) < MaxFrames

\* The tasks once another step is taken.
Quiet(t) ==
    [c \in ConnectionIds |-> [t[c] EXCEPT !.told = FALSE, !.greeted = FALSE]]

\* The tasks after a broadcast of `state`: it shows every outstanding
\* dispatch that produced this state.
Shown(t, state) ==
    [c \in ConnectionIds |->
        [t[c] EXCEPT !.told = FALSE, !.greeted = FALSE,
                     !.shown = @ \/ (t[c].ok /\ t[c].produced = state),
                     !.stamps = IF Len(channels'[c].buf) > Len(channels[c].buf)
                                THEN Append(@, Version(t)) ELSE @]]

\* The reader of c after an engine call: its broadcast is still to come.
Dispatched(c) ==
    [Quiet(tasks) EXCEPT ![c].reader = "broadcast",
                         ![c].frames = @ + 1,
                         ![c].ok = last'.result = "Ok",
                         ![c].produced = sessions'[WsSession(c)].state,
                         ![c].shown = FALSE,
                         ![c].broadcasts = 0,
                         ![c].changes =
                             IF sessions'[WsSession(c)].state
                                    = Found(sessions, WsSession(c)).state
                             THEN @ ELSE @ + 1]

\* The channel is created and its sender registered.
ws_add_client(c) ==
    /\ tasks[c].pc = "start"
    /\ sessions' =
         IF WsSession(c) \in DOMAIN sessions
         THEN [sessions EXCEPT ![WsSession(c)].ws_clients = @ \cup {c}]
         ELSE Put(sessions, WsSession(c),
                  [DefaultTradeSession EXCEPT !.ws_clients = {c}])
    /\ channels' = [channels EXCEPT ![c] = OpenChannel]
    /\ last' = [Call("add_client", WsSession(c), None, None, 0, 0, "Ok")
                   EXCEPT !.conn = c]
    /\ tasks' = [Quiet(tasks) EXCEPT ![c].pc = "added"]
    /\ UNCHANGED tx

\* The snapshot a connection gets on registration; the two tasks start.
ws_first_broadcast(c) ==
    /\ tasks[c].pc = "added"
    /\ broadcast_current_state(WsSession(c))
    /\ tasks' = [Shown(tasks, sessions[WsSession(c)].state) EXCEPT
                     ![c].pc = "running",
                     ![c].greeted = TRUE]

ws_offer_tokens(c, m, a) ==
    /\ Reading(c)
    /\ add_tokens_offer(WsSession(c), WsUser(c), m, a)
    /\ tasks' = Dispatched(c)

ws_withdraw_tokens(c, m, a) ==
    /\ Reading(c)
    /\ withdraw_tokens(WsSession(c), WsUser(c), m, a)
    /\ tasks' = Dispatched(c)

ws_accept_trade(c) ==
    /\ Reading(c)
    /\ accept_trade(WsSession(c), WsUser(c))
    /\ tasks' = Dispatched(c)

\* GetTransactionToSign and SignedTransaction: no engine call, a broadcast.
ws_get_or_signed(c) ==
    /\ Reading(c)
    /\ tasks' = [Quiet(tasks) EXCEPT ![c].reader = "broadcast",
                                     ![c].frames = @ + 1,
                                     ![c].ok = FALSE,
                                     ![c].produced = DefaultTradeState,
                                     ![c].shown = FALSE,
                                     ![c].broadcasts = 0]
    /\ last' = Local("get_or_signed", WsSession(c), c)
    /\ UNCHANGED <<sessions, channels, tx>>

\* A frame that is no command ends the reader.
ws_ignored_Terminates(c) ==
    /\ tasks[c].pc = "running"
    /\ tasks[c].reader = "reading"
    /\ tasks' = [Quiet(tasks) EXCEPT ![c].reader = "exited"]
    /\ last' = Local("ignored", WsSession(c), c)
    /\ UNCHANGED <<sessions, channels, tx>>

\* A frame that is no command: text that does not decode, an inbound
\* TradeStateUpdate, a binary, ping or pong frame.  The reader goes on.
ws_ignored(c) ==
    /\ tasks[c].pc = "running"
    /\ tasks[c].reader = "reading"
    /\ tasks' = Quiet(tasks)
    /\ last' = Local("ignored", WsSession(c), c)
    /\ UNCHANGED <<sessions, channels, tx>>

\* The reader broadcasts only after a call that succeeded.
ws_broadcast_OnSuccessOnly(c) ==
    /\ tasks[c].pc = "running"
    /\ tasks[c].reader = "broadcast"
    /\ IF tasks[c].ok
       THEN /\ broadcast_current_state(WsSession(c))
            /\ tasks' = [Shown(tasks, sessions[WsSession(c)].state) EXCEPT
                             ![c].reader = "reading",
                             ![c].told = TRUE,
                             ![c].broadcasts = @ + 1]
       ELSE /\ tasks' = [Quiet(tasks) EXCEPT ![c].reader = "reading"]
            /\ last' = NoCall
            /\ UNCHANGED <<sessions, channels, tx>>

\* The broadcast that ends a dispatch, under a lock of its own.
ws_broadcast(c) ==
    /\ tasks[c].pc = "running"
    /\ tasks[c].reader = "broadcast"
    /\ broadcast_current_state(WsSession(c))
    /\ tasks' = [Shown(tasks, sessions[WsSession(c)].state) EXCEPT
                     ![c].reader = "reading",
                     ![c].told = tasks[c].ok,
                     ![c].broadcasts = @ + 1]

\* A Close frame, a read error or the end of the stream.
ws_close(c) ==
    /\ tasks[c].pc = "running"
    /\ tasks[c].reader = "reading"
    /\ tasks' = [Quiet(tasks) EXCEPT ![c].reader = "exited"]
    /\ last' = NoCall
    /\ UNCHANGED <<sessions, channels, tx>>

\* The writer dequeues a message and sends it as a text frame.
ws_write(c) ==
    /\ tasks[c].pc = "running"
    /\ tasks[c].writer = "running"
    /\ channels[c].buf # <<>>
    /\ channels' = [channels EXCEPT ![c].buf = Tail(@)]
    /\ tasks' = [Quiet(tasks) EXCEPT ![c].stamps = Tail(@)]
    /\ last' = NoCall
    /\ UNCHANGED <<sessions, tx>>

\* The send fails: the writer breaks out of its loop and drops the receiver.
ws_write_fails(c) ==
    /\ tasks[c].pc = "running"
    /\ tasks[c].writer = "running"
    /\ channels[c].buf # <<>>
    /\ channels' = [channels EXCEPT ![c] = ClosedChannel]
    /\ tasks' = [Quiet(tasks) EXCEPT ![c].writer = "exited", ![c].stamps = <<>>]
    /\ last' = NoCall
    /\ UNCHANGED <<sessions, tx>>

\* tokio::join! of the two tasks, then remove_client.
ws_remove_client(c) ==
    /\ tasks[c].pc = "running"
    /\ tasks[c].reader = "exited"
    /\ tasks[c].writer = "exited"
    /\ remove_client(WsSession(c), c)
    /\ tasks' = [Quiet(tasks) EXCEPT ![c].pc = "done"]

\* ---------------------------------------------------------- specifications

\* SharedSessions::new: an empty registry.  The senders handed to add_client
\* belong to channels whose receiver has been dropped, so a broadcast's
\* try_send enqueues nothing.
Init ==
    /\ sessions = EmptyMap
    /\ channels = NoChannels
    /\ last = NoCall
    /\ tx = NoTx
    /\ tasks = NoTasks

\* The registration calls over the connections CS.
ClientCalls(CS) ==
    \/ \E s \in SessionIds, c \in CS :
           add_client(s, c) /\ UNCHANGED tasks
    \/ \E s \in SessionIds, c \in CS :
           remove_client(s, c) /\ UNCHANGED tasks
    \/ \E s \in SessionIds :
           broadcast_current_state(s) /\ UNCHANGED tasks

\* The trade calls by the users US on the mints MS.
TradeCalls(US, MS) ==
    \/ \E s \in SessionIds, u \in US, m \in MS, a \in Amounts :
           add_tokens_offer(s, u, m, a) /\ UNCHANGED tasks
    \/ \E s \in SessionIds, u \in US, m \in MS, a \in Amounts :
           withdraw_tokens(s, u, m, a) /\ UNCHANGED tasks
    \/ \E s \in SessionIds, u \in US :
           accept_trade(s, u) /\ UNCHANGED tasks
    \/ \E s \in SessionIds :
           get_transaction_to_sign(s) /\ UNCHANGED tasks
    \/ \E s \in SessionIds :
           sign_transaction(s, "signature") /\ UNCHANGED tasks

\* Three users on one mint: the two-party limit and the phases.
Next == ClientCalls(EngineConnections) \/ TradeCalls(Users, {"TokenA"})

Spec == Init /\ [][Next]_vars

\* Alice offering two mints and Bob one, on a session its subscriber has
\* registered: bundles that hold several mints.
InitMints ==
    /\ sessions = Put(EmptyMap, "s1",
                      [DefaultTradeSession EXCEPT !.ws_clients = {"c1"}])
    /\ channels = NoChannels
    /\ last = NoCall
    /\ tx = NoTx
    /\ tasks = NoTasks

NextMints == TradeCalls({"Alice"}, Mints) \/ TradeCalls({"Bob"}, {"TokenB"})

SpecMints == InitMints /\ [][NextMints]_vars

\* The trade calls on a session found in any status, as the tests of the
\* phase guard set it (test_trade_must_be_mutable_only_in_trading_or_
\* oneuseraccepted_status assigns session.state.status directly).
PhaseItems ==
    {EmptyMap,
     Put(EmptyMap, "Alice", Put(EmptyMap, "TokenA", 1)),
     Put(Put(EmptyMap, "Alice", Put(EmptyMap, "TokenA", 1)),
         "Bob", Put(EmptyMap, "TokenA", 2))}

InitPhase ==
    /\ \E items \in PhaseItems, status \in TradeStatus, user \in Users :
         sessions = Put(EmptyMap, "s1",
                        [state |-> [items |-> items,
                                    user_acted |-> IF status = "OneUserAccepted"
                                                   THEN user ELSE None,
                                    status |-> status],
                         ws_clients |-> {"c1"}])
    /\ channels = NoChannels
    /\ last = NoCall
    /\ tx = NoTx
    /\ tasks = NoTasks

NextPhase == TradeCalls(Users, {"TokenA"})

SpecPhase == InitPhase /\ [][NextPhase]_vars

\* The cancellation on its own: every pair of bundles over three mints.
InitCancel ==
    /\ sessions = EmptyMap
    /\ channels = NoChannels
    /\ last = NoCall
    /\ \E a, b \in Bundles(CancelMints) :
         tx = [NoTx EXCEPT !.stage = "input", !.in1 = a, !.in2 = b]
    /\ tasks = NoTasks

NextCancel == cancel \/ cancel_again \/ cancel_swapped

SpecCancel == InitCancel /\ [][NextCancel]_vars

\* The transaction builder on every offers map of up to three users.
InitTx ==
    /\ sessions = EmptyMap
    /\ channels = NoChannels
    /\ last = NoCall
    /\ \E US \in SUBSET Users : \E items \in [US -> Bundles(Mints)] :
         tx = [NoTx EXCEPT !.stage = "items", !.items = items]
    /\ tasks = NoTasks

NextTx == create_transaction

SpecTx == InitTx /\ [][NextTx]_vars

\* The registry under direct calls, with two connections whose channels
\* are created, read and dropped by their owners, and one user accepting.
InitClients == Init

NextClients ==
    \/ \E c \in ConnectionIds : channel(c) /\ UNCHANGED tasks
    \/ \E c \in ConnectionIds : recv(c) /\ UNCHANGED tasks
    \/ \E c \in ConnectionIds : drop_receiver(c) /\ UNCHANGED tasks
    \/ ClientCalls(ConnectionIds)
    \/ \E s \in SessionIds : accept_trade(s, "Alice") /\ UNCHANGED tasks

SpecClients == InitClients /\ [][NextClients]_vars

\* Two connections served by handle_socket on the same session: Alice's
\* offers and withdraws, Bob's accepts and asks for the transaction.
InitWs == Init

NextWs ==
    \E c \in ConnectionIds :
        \/ ws_add_client(c)
        \/ ws_first_broadcast(c)
        \/ c = "c1" /\ ws_offer_tokens(c, "TokenA", MaxAmount)
        \/ c = "c1" /\ ws_withdraw_tokens(c, "TokenA", MaxAmount)
        \/ c = "c2" /\ ws_accept_trade(c)
        \/ c = "c2" /\ ws_get_or_signed(c)
        \/ c = "c2" /\ ws_ignored(c)
        \/ ws_broadcast(c)
        \/ ws_close(c)
        \/ ws_write(c)
        \/ ws_write_fails(c)
        \/ ws_remove_client(c)

SpecWs == InitWs /\ [][NextWs]_vars

\* The same under the scheduling the runtime gives: a spawned task that can
\* take a step takes it, the handler that can return from join! returns, and
\* the stream of a connection whose writer failed to send comes to an end.
FairWs ==
    \A c \in ConnectionIds :
        /\ WF_vars(ws_first_broadcast(c))
        /\ WF_vars(ws_broadcast(c))
        /\ WF_vars(ws_write(c) \/ ws_write_fails(c))
        /\ WF_vars(tasks[c].writer = "exited" /\ ws_close(c))
        /\ WF_vars(ws_remove_client(c))

SpecWsFair == SpecWs /\ FairWs

\* Two sessions in one registry, each with the connection that was opened
\* for it.  The second session is under way when the first one starts: Alice
\* has offered in it, Bob has accepted, and its connection has been sent
\* that state.  The first session is registered, accepted and broadcast
\* while Alice goes on offering and withdrawing in the second.
\* The session id of the path a connection was opened with.
SessionOf(c) == IF c = "c1" THEN "s1" ELSE "s2"

\* The state of the second session: add_tokens_offer by Alice with a cached
\* balance of 1, then accept_trade by Bob.
UnderWayState ==
    AcceptedState(MutatedState(DefaultTradeState,
                               Put(EmptyMap, "Alice", Put(EmptyMap, "TokenA", 1))),
                  "Bob")

InitSessions ==
    /\ sessions = Put(EmptyMap, "s2",
                      [state |-> UnderWayState, ws_clients |-> {"c2"}])
    /\ channels = [c \in ConnectionIds |->
                      IF c = "c2"
                      THEN TrySend(OpenChannel, TradeStateUpdate(UnderWayState))
                      ELSE OpenChannel]
    /\ last = NoCall
    /\ tx = NoTx
    /\ tasks = NoTasks

NextSessions ==
    \/ \E c \in ConnectionIds : add_client(SessionOf(c), c) /\ UNCHANGED tasks
    \/ \E c \in ConnectionIds : remove_client(SessionOf(c), c) /\ UNCHANGED tasks
    \/ broadcast_current_state("s1") /\ UNCHANGED tasks
    \/ \E u \in {"Alice", "Bob"} : accept_trade("s1", u) /\ UNCHANGED tasks
    \/ add_tokens_offer("s2", "Alice", "TokenA", MaxAmount) /\ UNCHANGED tasks
    \/ withdraw_tokens("s2", "Alice", "TokenA", 1) /\ UNCHANGED tasks

SpecSessions == InitSessions /\ [][NextSessions]_vars

\* ------------------------------------------------------------------ claims

\* The session of the last call, as the call left it and as it found it.
Post == sessions[last.session].state
Pre == last.pre.state

OnSession(op) ==
    /\ last.op = op
    /\ last.pre.exists
    /\ last.session \in DOMAIN sessions

Offer == OnSession("add_tokens_offer")
Withdrawal == OnSession("withdraw_tokens")
Acceptance == OnSession("accept_trade")

PostAcceptedStatus ==
    {"Accepted", "TransactionCreated", "OneUserSigned", "TransactionSent"}

\* C1: in every reachable state every session's offers have at most two
\* user keys.
C1_AtMostTwoUsers ==
    \A s \in DOMAIN sessions : Cardinality(DOMAIN sessions[s].state.items) <= 2

\* A third user's offer was turned away from a session of two parties.
C1_Witness ==
    /\ Offer
    /\ last.result = "TooManyParties"
    /\ Cardinality(DOMAIN Post.items) = 2

\* C2: every amount stored in every user's bundle is strictly positive,
\* whatever the token-amount cache held at the time of each offer.
C2_AmountsPositive ==
    \A s \in DOMAIN sessions :
        \A u \in DOMAIN sessions[s].state.items :
            \A m \in DOMAIN sessions[s].state.items[u] :
                sessions[s].state.items[u][m] > 0

\* C3 as stated: after any add_tokens_offer or withdraw_tokens that returns
\* success, for any arguments, the status is Trading and user_acted is None.
C3_AnySuccessReverts ==
    ((Offer \/ Withdrawal) /\ last.result = "Ok")
        => (Post.status = "Trading" /\ Post.user_acted = None)

\* C3 amended: after an add_tokens_offer or withdraw_tokens with a positive
\* amount that returns success, the status is Trading and user_acted is None.
C3_PositiveSuccessReverts ==
    ((Offer \/ Withdrawal) /\ last.amount > 0 /\ last.result = "Ok")
        => (Post.status = "Trading" /\ Post.user_acted = None)

\* An offer or a withdrawal reverted a pending acceptance.
C3_Witness ==
    /\ Offer \/ Withdrawal
    /\ last.amount > 0
    /\ last.result = "Ok"
    /\ Pre.status = "OneUserAccepted"
    /\ Pre.user_acted # None
    /\ Post.status = "Trading"

\* The calls are admitted in Trading and OneUserAccepted.
AdmittedWhenMutable ==
    ((Offer \/ Withdrawal \/ Acceptance)
        /\ Pre.status \in {"Trading", "OneUserAccepted"})
        => last.result # "InvalidPhase"

\* C4 as stated: in Accepted, TransactionCreated, OneUserSigned and
\* TransactionSent every add_tokens_offer, withdraw_tokens and accept_trade
\* fails with InvalidPhase and changes nothing; in Trading and
\* OneUserAccepted the calls are admitted.
C4_EveryCallRefused ==
    /\ ((Offer \/ Withdrawal \/ Acceptance) /\ Pre.status \in PostAcceptedStatus)
          => (last.result = "InvalidPhase" /\ Post = Pre)
    /\ AdmittedWhenMutable

\* C4 amended: in those statuses every accept_trade and every
\* add_tokens_offer and withdraw_tokens with a positive amount fails with
\* InvalidPhase, and every call leaves offers, user_acted and status
\* unchanged; in Trading and OneUserAccepted the calls are admitted.
C4_PositiveCallRefused ==
    /\ ((Offer \/ Withdrawal \/ Acceptance) /\ Pre.status \in PostAcceptedStatus)
          => /\ Post = Pre
             /\ (Acceptance \/ last.amount > 0) => last.result = "InvalidPhase"
    /\ AdmittedWhenMutable

\* A withdrawal was refused on a session whose transaction was sent.
C4_Witness ==
    /\ Withdrawal
    /\ last.amount > 0
    /\ Pre.status = "TransactionSent"
    /\ last.result = "InvalidPhase"

\* C5: after a successful add_tokens_offer(u, m, a) with a > 0, offers[u][m]
\* is min(existing + a, available) when m was in u's bundle and
\* min(a, available) otherwise, so it never exceeds the cached balance.
C5_OfferCappedByBalance ==
    (Offer /\ last.amount > 0 /\ last.result = "Ok")
        => LET u == last.user
               m == last.mint
               had == u \in DOMAIN Pre.items /\ m \in DOMAIN Pre.items[u]
               asked == IF had THEN Pre.items[u][m] + last.amount
                        ELSE last.amount
           IN  /\ u \in DOMAIN Post.items
               /\ m \in DOMAIN Post.items[u]
               /\ Post.items[u][m] =
                    IF asked <= last.available THEN asked ELSE last.available
               /\ Post.items[u][m] <= last.available

\* A repeated offer was cut down to the cached balance.
C5_Witness ==
    /\ Offer
    /\ last.amount > 0
    /\ last.result = "Ok"
    /\ last.user \in DOMAIN Pre.items
    /\ last.mint \in DOMAIN Pre.items[last.user]
    /\ Pre.items[last.user][last.mint] > 0
    /\ Pre.items[last.user][last.mint] + last.amount > last.available
    /\ Post.items[last.user][last.mint] = last.available

\* A third user's offer with a positive amount on a session of two parties.
ThirdUserOffer ==
    /\ Offer
    /\ last.amount > 0
    /\ Cardinality(DOMAIN Pre.items) = 2
    /\ last.user \notin DOMAIN Pre.items

\* C6 as stated: when two users are keys of the offers, add_tokens_offer with
\* a positive amount by a third user fails with TooManyParties and leaves
\* the session state unchanged.
C6_ThirdUserTooManyParties ==
    ThirdUserOffer => (last.result = "TooManyParties" /\ Post = Pre)

\* C6 amended: such an offer fails and leaves the session state unchanged;
\* it fails with TooManyParties when the status is Trading or
\* OneUserAccepted, and with InvalidPhase otherwise.
C6_ThirdUserRefused ==
    ThirdUserOffer
        => /\ Post = Pre
           /\ last.result =
                IF Pre.status \in {"Trading", "OneUserAccepted"}
                THEN "TooManyParties" ELSE "InvalidPhase"

\* A third user was turned away while both parties' bundles were empty.
C6_Witness ==
    /\ ThirdUserOffer
    /\ last.result = "TooManyParties"
    /\ \A u \in DOMAIN Pre.items : DOMAIN Pre.items[u] = {}

\* C7: accept_trade(u) on a session in Trading succeeds, sets user_acted to
\* u and the status to OneUserAccepted, and leaves the offers unchanged.
C7_FirstAccept ==
    (Acceptance /\ Pre.status = "Trading")
        => /\ last.result = "Ok"
           /\ Post.user_acted = last.user
           /\ Post.status = "OneUserAccepted"
           /\ Post.items = Pre.items

\* A user accepted a trade that holds an offer.
C7_Witness ==
    /\ Acceptance
    /\ Pre.status = "Trading"
    /\ Pre.items # EmptyMap
    /\ Post.status = "OneUserAccepted"

\* C8: in OneUserAccepted with user_acted = A, accept_trade(B) for B # A
\* succeeds, sets the status to Accepted, clears user_acted and leaves the
\* offers unchanged.
C8_SecondAccept ==
    (Acceptance /\ Pre.status = "OneUserAccepted" /\ Pre.user_acted # last.user)
        => /\ last.result = "Ok"
           /\ Post.status = "Accepted"
           /\ Post.user_acted = None
           /\ Post.items = Pre.items

\* The second party accepted after the first.
C8_Witness ==
    /\ Acceptance
    /\ Pre.status = "OneUserAccepted"
    /\ Pre.user_acted \in Users \ {last.user}
    /\ Post.status = "Accepted"

\* C9: in OneUserAccepted with user_acted = A, accept_trade(A) succeeds and
\* leaves status, user_acted and offers unchanged, so repeated accepts by
\* the same user never reach Accepted.
C9_ReacceptIdempotent ==
    (Acceptance /\ Pre.status = "OneUserAccepted" /\ Pre.user_acted = last.user)
        => (last.result = "Ok" /\ Post = Pre)

\* The first acceptor accepted again.
C9_Witness ==
    /\ Acceptance
    /\ Pre.status = "OneUserAccepted"
    /\ Pre.user_acted = last.user
    /\ Post.status = "OneUserAccepted"
    /\ last.result = "Ok"

C10_WitnessOtherMint ==
    /\ Withdrawal
    /\ last.amount > 0
    /\ last.result = "Ok"
    /\ last.user \in DOMAIN Pre.items
    /\ last.mint \notin DOMAIN Pre.items[last.user]
    /\ Post.items[last.user] = Pre.items[last.user]
    /\ DOMAIN Post.items[last.user] # {}

\* A withdrawal with a positive amount by a user who is no key of the offers.
NonPartyWithdrawal ==
    /\ Withdrawal
    /\ last.amount > 0
    /\ last.user \notin DOMAIN Pre.items

\* C11 as stated: withdraw_tokens with a positive amount by a user who is no
\* key of the offers fails with UnknownUserInSession and leaves offers,
\* user_acted and status unchanged.
C11_NonPartyUnknownUser ==
    NonPartyWithdrawal => (last.result = "UnknownUserInSession" /\ Post = Pre)

\* C11 amended: such a withdrawal fails and leaves offers, user_acted and
\* status unchanged; it fails with UnknownUserInSession when the status is
\* Trading or OneUserAccepted, and with InvalidPhase otherwise.
C11_NonPartyRefused ==
    NonPartyWithdrawal
        => /\ Post = Pre
           /\ last.result =
                IF Pre.status \in {"Trading", "OneUserAccepted"}
                THEN "UnknownUserInSession" ELSE "InvalidPhase"

\* A stranger's withdrawal was refused and the other user's acceptance stands.
C11_Witness ==
    /\ NonPartyWithdrawal
    /\ last.result = "UnknownUserInSession"
    /\ Pre.status = "OneUserAccepted"
    /\ Pre.user_acted \in Users \ {last.user}
    /\ Post.status = "OneUserAccepted"
    /\ Post.user_acted = Pre.user_acted

\* C12: add_tokens_offer and withdraw_tokens with an amount <= 0 return
\* success and change nothing: the session is as the call found it.
C12_NonPositiveNoOp ==
    (last.op \in {"add_tokens_offer", "withdraw_tokens"} /\ last.amount <= 0)
        => /\ last.result = "Ok"
           /\ Found(sessions, last.session) = last.pre

\* A call with a negative amount left a pending acceptance in place.
C12_Witness ==
    /\ Offer \/ Withdrawal
    /\ last.amount < 0
    /\ last.result = "Ok"
    /\ Pre.status = "OneUserAccepted"
    /\ Post.status = "OneUserAccepted"
    /\ Post.user_acted = last.user

\* A call with amount zero left a pending acceptance in place.
C12_WitnessZero ==
    /\ Offer \/ Withdrawal
    /\ last.amount = 0
    /\ last.result = "Ok"
    /\ Pre.status = "OneUserAccepted"
    /\ Post.status = "OneUserAccepted"

\* C15: whenever add_tokens_offer, withdraw_tokens or accept_trade returns
\* an error, the registry and the session's offers, user_acted, status and
\* client map are what they were before the call.
C15_ErrorChangesNothing ==
    (last.op \in {"add_tokens_offer", "withdraw_tokens", "accept_trade"}
        /\ last.result # "Ok")
        => Found(sessions, last.session) = last.pre

\* A call on a session that is not in the registry returned an error.
C15_Witness ==
    /\ last.op = "accept_trade"
    /\ last.result = "UnknownSession"
    /\ ~last.pre.exists
    /\ last.session \notin DOMAIN sessions

\* A call was refused on a session that holds offers and a subscriber.
C15_WitnessPhase ==
    /\ Offer
    /\ last.result = "InvalidPhase"
    /\ Pre.items # EmptyMap
    /\ last.pre.ws_clients # {}

\* ------------------------------------------------------------- C16 .. C18

\* The state after the first cancellation, and the mints on both sides.
Cancelled == tx.stage = "cancelled"
Common == DOMAIN tx.in1 \cap DOMAIN tx.in2

\* C16: cancel_out_trade_tokens applied to the pair it returned returns
\* that pair again, and applied to the two bundles the other way round it
\* returns the same pair swapped.
C16_IdempotentCommutative ==
    /\ tx.stage = "reapplied" =>
         (tx.out1 = tx.first1 /\ tx.out2 = tx.first2)
    /\ tx.stage = "swapped" =>
         (tx.out1 = tx.first2 /\ tx.out2 = tx.first1)

\* A second application to a pair of residues that both hold something.
C16_Witness ==
    /\ tx.stage = "reapplied"
    /\ tx.out1 # EmptyMap
    /\ tx.out2 # EmptyMap

\* A swapped application where a common mint left a residue.
C16_WitnessSwapped ==
    /\ tx.stage = "swapped"
    /\ \E t \in Common : tx.in1[t] # tx.in2[t]
    /\ tx.out1 # tx.out2

\* What C17 says of the mints both parties offer, and of zero entries.
CommonCancelled ==
    \A t \in Common :
        /\ tx.in1[t] > tx.in2[t] =>
             (t \in DOMAIN tx.out1 /\ tx.out1[t] = tx.in1[t] - tx.in2[t]
              /\ t \notin DOMAIN tx.out2)
        /\ tx.in1[t] < tx.in2[t] =>
             (t \in DOMAIN tx.out2 /\ tx.out2[t] = tx.in2[t] - tx.in1[t]
              /\ t \notin DOMAIN tx.out1)
        /\ tx.in1[t] = tx.in2[t] =>
             (t \notin DOMAIN tx.out1 /\ t \notin DOMAIN tx.out2)

NoZeroResidue ==
    /\ \A t \in DOMAIN tx.out1 : tx.out1[t] # 0
    /\ \A t \in DOMAIN tx.out2 : tx.out2[t] # 0

\* The residues hold no mint that neither party offered.
NothingInvented ==
    /\ DOMAIN tx.out1 \subseteq DOMAIN tx.in1
    /\ DOMAIN tx.out2 \subseteq DOMAIN tx.in2

\* The amount a bundle holds of mint t: nothing when it has no entry.
AmountOf(offers, t) == IF t \in DOMAIN offers THEN offers[t] ELSE 0

\* C17: a mint both parties offer leaves the difference on the side that
\* offered more and no entry on the other, no entry on either side when the
\* amounts are equal; a mint only one party offers keeps its amount (an
\* entry of amount zero is dropped, so that nothing stays nothing); no
\* residue entry is zero, and no residue holds a mint its party did not offer.
C17_CancelResidues ==
    Cancelled =>
        /\ CommonCancelled
        /\ \A t \in DOMAIN tx.in1 \ DOMAIN tx.in2 :
               AmountOf(tx.out1, t) = tx.in1[t]
        /\ \A t \in DOMAIN tx.in2 \ DOMAIN tx.in1 :
               AmountOf(tx.out2, t) = tx.in2[t]
        /\ NoZeroResidue
        /\ NothingInvented

\* One mint larger on the first side, one equal on both, and one offered
\* by the second party alone.
C17_Witness ==
    /\ Cancelled
    /\ \E t \in Common : tx.in1[t] > tx.in2[t] /\ tx.in2[t] > 0
    /\ \E t \in Common : tx.in1[t] = tx.in2[t] /\ tx.in1[t] > 0
    /\ \E t \in DOMAIN tx.in2 \ DOMAIN tx.in1 : tx.in2[t] > 0

\* A zero entry that the first party alone holds.
C17_WitnessZeroEntry ==
    /\ Cancelled
    /\ \E t \in DOMAIN tx.in1 \ DOMAIN tx.in2 : tx.in1[t] = 0

Created == tx.stage = "created"

\* C18: create_transaction fails with InvalidParties when the offers map
\* does not hold exactly two users and with EmptyTrade when it does and both
\* residues are empty; in both cases it has requested no blockhash and
\* returns no transaction.
C18_PartiesAndEmptyTrade ==
    Created =>
        /\ Cardinality(DOMAIN tx.items) # 2 => tx.result = "InvalidParties"
        /\ (Cardinality(DOMAIN tx.items) = 2
            /\ tx.out1 = EmptyMap /\ tx.out2 = EmptyMap)
               => tx.result = "EmptyTrade"
        /\ tx.result \in {"InvalidParties", "EmptyTrade"} =>
               (~tx.blockhash_requested /\ tx.transaction = NoTransaction)
        /\ tx.result # "Ok" => tx.transaction = NoTransaction

\* Two users with the same non-empty bundle: both residues are empty.
C18_Witness ==
    /\ Created
    /\ Cardinality(DOMAIN tx.items) = 2
    /\ tx.in1 = tx.in2
    /\ \E t \in DOMAIN tx.in1 : tx.in1[t] > 0
    /\ tx.result = "EmptyTrade"

C18_WitnessThreeUsers ==
    /\ Created
    /\ Cardinality(DOMAIN tx.items) = 3
    /\ tx.result = "InvalidParties"

C18_WitnessLoneUser ==
    /\ Created
    /\ Cardinality(DOMAIN tx.items) = 1
    /\ tx.result = "InvalidParties"

\* ------------------------------------------------------- C13, C14, C19, C20

\* try_send succeeds: the receiver is alive and the queue is not full.
HasRoom(ch) == ~ch.closed /\ Len(ch.buf) < ChannelCapacity

\* The connections registered when the last call began.
RegisteredBefore == IF last.pre.exists THEN last.pre.ws_clients ELSE {}

\* The reader of some connection has just broadcast after a successful call.
Told == \E c \in ConnectionIds : tasks[c].told

\* C13 as stated: the broadcast that follows a successful add_tokens_offer,
\* withdraw_tokens or accept_trade enqueues at least one TradeStateUpdate to
\* every registered connection, whatever its queue holds.
C13_EveryConnectionEnqueued ==
    Told => \A d \in RegisteredBefore :
                Len(channels[d].buf) > Len(last.chans[d].buf)

\* C13, amended: that broadcast enqueues exactly one TradeStateUpdate, the
\* session's state at the broadcast, to every registered connection whose
\* queue is not full and whose receiver is alive, and nothing to the others.
C13_EnqueuedWhereRoom ==
    Told => \A d \in ConnectionIds :
                channels[d] =
                    IF d \in RegisteredBefore /\ HasRoom(last.chans[d])
                    THEN [last.chans[d] EXCEPT !.buf =
                              Append(@, TradeStateUpdate(last.pre.state))]
                    ELSE last.chans[d]

\* A broadcast after a successful call that finds one registered queue full
\* and another with room.
C13_Witness ==
    /\ Told
    /\ \E d \in RegisteredBefore :
           ~last.chans[d].closed /\ Len(last.chans[d].buf) = ChannelCapacity
    /\ \E d \in RegisteredBefore : HasRoom(last.chans[d])

\* C14: once a reader has broadcast after its successful call, a broadcast
\* has carried the state that call produced.
C14_EveryMutationBroadcast ==
    \A c \in ConnectionIds :
        (tasks[c].ok /\ tasks[c].reader # "broadcast") => tasks[c].shown

\* The last call was a broadcast.
Broadcast == last.op = "broadcast_current_state"

\* C19: broadcast_current_state enqueues exactly one TradeStateUpdate equal
\* to the session's state to every registered connection that try_send can
\* reach (receiver alive, queue not full), leaves every other queue, the
\* trade state and the client map as they were, and does nothing on an
\* unknown session.
C19_BroadcastSnapshot ==
    Broadcast =>
        /\ Found(sessions, last.session) = last.pre
        /\ \A d \in ConnectionIds :
               channels[d] =
                   IF d \in RegisteredBefore /\ HasRoom(last.chans[d])
                   THEN [last.chans[d] EXCEPT !.buf =
                             Append(@, TradeStateUpdate(last.pre.state))]
                   ELSE last.chans[d]

\* A broadcast of a state other than the default one that reaches one
\* connection and finds the other's queue full.
C19_Witness ==
    /\ Broadcast
    /\ last.pre.exists
    /\ last.pre.state # DefaultTradeState
    /\ \E d \in RegisteredBefore : HasRoom(last.chans[d])
    /\ \E d \in RegisteredBefore : Len(last.chans[d].buf) = ChannelCapacity

\* A broadcast on an unknown session while a channel is open.
C19_WitnessUnknownSession ==
    /\ Broadcast
    /\ ~last.pre.exists
    /\ \E d \in ConnectionIds : ~channels[d].closed

\* A broadcast that finds a registered connection's receiver gone.
C19_WitnessReceiverGone ==
    /\ Broadcast
    /\ \E d \in RegisteredBefore : last.chans[d].closed

\* C20: add_client registers the connection, creating the session with the
\* default state only when it is absent and otherwise keeping its trade
\* state and its other connections; remove_client removes that connection
\* alone and keeps the session, even with no connection left; neither
\* touches a queue.
C20_RegistrationFrame ==
    /\ last.op = "add_client" =>
         /\ last.session \in DOMAIN sessions
         /\ sessions[last.session] =
              IF last.pre.exists
              THEN [state |-> last.pre.state,
                    ws_clients |-> last.pre.ws_clients \cup {last.conn}]
              ELSE [DefaultTradeSession EXCEPT !.ws_clients = {last.conn}]
         /\ channels = last.chans
    /\ last.op = "remove_client" =>
         /\ last.session \in DOMAIN sessions <=> last.pre.exists
         /\ last.pre.exists =>
              sessions[last.session] =
                  [state |-> last.pre.state,
                   ws_clients |-> last.pre.ws_clients \ {last.conn}]
         /\ channels = last.chans

\* The last connection of a session that has moved on is removed.
C20_Witness ==
    /\ last.op = "remove_client"
    /\ last.pre.exists
    /\ last.pre.ws_clients = {last.conn}
    /\ last.pre.state # DefaultTradeState

\* A second connection joins a session that has moved on.
C20_WitnessAdd ==
    /\ last.op = "add_client"
    /\ last.pre.exists
    /\ last.pre.ws_clients # {}
    /\ last.conn \notin last.pre.ws_clients
    /\ last.pre.state # DefaultTradeState

\* ------------------------------------------------------------- C21 .. C30

\* One of the two tasks of connection c has exited.
TaskExited(c) == tasks[c].reader = "exited" \/ tasks[c].writer = "exited"

\* C21: once the reader or the writer of a connection has exited, the
\* connection is eventually removed from the client map and handle_socket
\* returns.
C21_ExitLeadsToRemoval ==
    \A c \in ConnectionIds : TaskExited(c) ~> tasks[c].pc = "done"

\* The update a broadcast of the last call's session carried.
Snapshot == TradeStateUpdate(last.pre.state)

\* C22 as stated: the broadcast that follows a connection's registration
\* enqueues to that connection one TradeStateUpdate carrying the session's
\* state at that broadcast, whatever the other connections did in between.
C22_GreetingEnqueued ==
    \A c \in ConnectionIds :
        tasks[c].greeted =>
            channels[c].buf = Append(last.chans[c].buf, Snapshot)

\* C22, amended: that broadcast enqueues the snapshot unless broadcasts of
\* other connections have filled the new queue since the registration, in
\* which case it enqueues nothing; either way the queue is open and holds at
\* least one message afterwards, and all it holds are TradeStateUpdates.
C22_GreetingUnlessFull ==
    \A c \in ConnectionIds :
        tasks[c].greeted =>
            /\ ~channels[c].closed
            /\ channels[c].buf =
                   IF Len(last.chans[c].buf) < ChannelCapacity
                   THEN Append(last.chans[c].buf, Snapshot)
                   ELSE last.chans[c].buf
            /\ channels[c].buf # <<>>
            /\ \A i \in 1..Len(channels[c].buf) :
                   channels[c].buf[i].type = "TradeStateUpdate"

\* A first broadcast of a state that has moved on, to a queue that another
\* connection's broadcast has reached first.
C22_Witness ==
    \E c \in ConnectionIds :
        /\ tasks[c].greeted
        /\ last.chans[c].buf # <<>>
        /\ HasRoom(last.chans[c])
        /\ last.pre.state # DefaultTradeState

\* A first broadcast that finds the new queue full.
C22_WitnessFull ==
    \E c \in ConnectionIds :
        /\ tasks[c].greeted
        /\ Len(last.chans[c].buf) = ChannelCapacity

LaterStatus == {"TransactionCreated", "OneUserSigned", "TransactionSent"}

\* C23: no session ever has the status TransactionCreated, OneUserSigned or
\* TransactionSent, and no call on a session whose status is Accepted changes
\* its offers, user_acted or status.
C23_AcceptedIsFinal ==
    /\ \A s \in DOMAIN sessions : sessions[s].state.status \notin LaterStatus
    /\ (last.pre.exists /\ Pre.status = "Accepted") =>
           (last.session \in DOMAIN sessions /\ Post = Pre)

\* A party offers a positive amount on an accepted trade.
C23_Witness ==
    /\ Offer
    /\ Pre.status = "Accepted"
    /\ last.amount > 0
    /\ last.user \in DOMAIN Pre.items

\* The stubs and a further acceptance on an accepted trade.
C23_WitnessStub ==
    /\ last.op \in {"get_transaction_to_sign", "sign_transaction"}
    /\ last.pre.exists
    /\ Pre.status = "Accepted"

C23_WitnessAccept ==
    /\ Acceptance
    /\ Pre.status = "Accepted"

\* The bundles of the users other than the caller are as the call found them.
OthersKept ==
    \A v \in DOMAIN Pre.items \ {last.user} :
        v \in DOMAIN Post.items /\ Post.items[v] = Pre.items[v]

\* What the caller offered of the call's mint when the call began.
HadOffered ==
    IF last.user \in DOMAIN Pre.items
    THEN AmountOf(Pre.items[last.user], last.mint) ELSE 0

\* C24: every call acts as a whole on the state the previous call left.  A
\* successful offer adds to the amount it found, up to the balance, and a
\* successful withdrawal takes from it, both keeping the other users'
\* bundles; a successful acceptance keeps all bundles and is recorded, and
\* completes the trade when the other user's acceptance stands; a failed
\* call leaves the state it found.
C24_NoLostUpdate ==
    /\ (Offer /\ last.result = "Ok" /\ last.amount > 0) =>
         /\ OthersKept
         /\ DOMAIN Post.items = DOMAIN Pre.items \cup {last.user}
         /\ Post.items[last.user][last.mint] =
                Min(HadOffered + last.amount, last.available)
    /\ (Withdrawal /\ last.result = "Ok" /\ last.amount > 0) =>
         /\ OthersKept
         /\ DOMAIN Post.items = DOMAIN Pre.items
         /\ AmountOf(Post.items[last.user], last.mint) =
                IF HadOffered > last.amount THEN HadOffered - last.amount
                ELSE 0
    /\ (Acceptance /\ last.result = "Ok") =>
         /\ Post.items = Pre.items
         /\ Post.status =
                IF Pre.user_acted \in {None, last.user}
                THEN "OneUserAccepted" ELSE "Accepted"
         /\ Post.status = "OneUserAccepted" => Post.user_acted = last.user
    /\ (last.op \in {"add_tokens_offer", "withdraw_tokens", "accept_trade"}
        /\ last.result # "Ok") => Found(sessions, last.session) = last.pre

\* An offer lands on a session where the caller and another user both hold
\* a positive amount.
C24_Witness ==
    /\ Offer
    /\ last.result = "Ok"
    /\ last.amount > 0
    /\ HadOffered > 0
    /\ \E v \in DOMAIN Pre.items \ {last.user} :
           AmountOf(Pre.items[v], last.mint) > 0

\* An acceptance lands after the other user's acceptance.
C24_WitnessAccept ==
    /\ Acceptance
    /\ last.result = "Ok"
    /\ Pre.user_acted \notin {None, last.user}

\* C25: no queue holds more than its capacity; the receiver takes the
\* oldest message; a broadcast puts its update behind the older messages of
\* every registered connection it can reach, drops it for a connection whose
\* queue is full or whose receiver is gone, and returns; and no step other
\* than a broadcast enqueues anything.
C25_BoundedFifoDrop ==
    /\ \A c \in ConnectionIds : Len(channels[c].buf) <= ChannelCapacity
    /\ last.op = "recv" =>
         channels = [last.chans EXCEPT ![last.conn].buf = Tail(@)]
    /\ Broadcast =>
         /\ last.result = "Ok"
         /\ \A d \in ConnectionIds :
                channels[d].buf =
                    IF d \in RegisteredBefore /\ HasRoom(last.chans[d])
                    THEN last.chans[d].buf \o <<Snapshot>>
                    ELSE last.chans[d].buf
    /\ ~Broadcast =>
         \A c \in ConnectionIds :
             Len(channels[c].buf) <= Len(last.chans[c].buf)

\* A broadcast of a new state behind an older message, with the other
\* registered connection's queue full.
C25_Witness ==
    /\ Broadcast
    /\ \E d \in RegisteredBefore :
           /\ HasRoom(last.chans[d])
           /\ last.chans[d].buf # <<>>
           /\ Head(last.chans[d].buf) # Snapshot
    /\ \E d \in RegisteredBefore : Len(last.chans[d].buf) = ChannelCapacity

\* The receiver takes the older of two different messages.
C25_WitnessRecv ==
    /\ last.op = "recv"
    /\ Len(last.chans[last.conn].buf) > 1
    /\ last.chans[last.conn].buf[1] # last.chans[last.conn].buf[2]

\* A step after a dropped message: the dropped update is not enqueued later.
C25_WitnessNoRetry ==
    /\ last.op = "recv"
    /\ \E d \in ConnectionIds :
           /\ d # last.conn
           /\ ~channels[d].closed
           /\ Len(channels[d].buf) = ChannelCapacity

\* C26: an offer made while the cache holds no balance of the mint for the
\* user sets the user's amount of that mint to zero when it succeeds with a
\* positive amount, and otherwise leaves the session as it found it: it
\* never makes the amount positive.
C26_MissPinsToZero ==
    (Offer /\ ~last.cached) =>
        IF last.result = "Ok" /\ last.amount > 0
        THEN /\ last.user \in DOMAIN Post.items
             /\ last.mint \in DOMAIN Post.items[last.user]
             /\ Post.items[last.user][last.mint] = 0
        ELSE Found(sessions, last.session) = last.pre

\* A user who offers a positive amount adds to it on a miss: it drops to 0.
C26_Witness ==
    /\ Offer
    /\ ~last.cached
    /\ last.result = "Ok"
    /\ last.amount > 0
    /\ HadOffered > 0

\* A first offer on a miss leaves an entry of amount zero.
C26_WitnessFirstOffer ==
    /\ Offer
    /\ ~last.cached
    /\ last.result = "Ok"
    /\ last.amount > 0
    /\ last.user \notin DOMAIN Pre.items

\* C27: for every command frame the reader makes exactly one broadcast,
\* after the engine call and whether or not the call succeeded; nothing but
\* TradeStateUpdates is ever queued for a client; GetTransactionToSign and
\* SignedTransaction leave the session as they found it.
C27_OneBroadcastPerCommand ==
    /\ \A c \in ConnectionIds :
           /\ tasks[c].reader = "broadcast" => tasks[c].broadcasts = 0
           /\ (tasks[c].reader # "broadcast" /\ tasks[c].frames > 0) =>
                  tasks[c].broadcasts = 1
           /\ \A i \in 1..Len(channels[c].buf) :
                  channels[c].buf[i].type = "TradeStateUpdate"
    /\ last.op = "get_or_signed" =>
           (Found(sessions, last.session) = last.pre /\ channels = last.chans)

\* Alice's reader has just broadcast after a call that failed.
C27_Witness ==
    /\ Broadcast
    /\ last.pre.exists
    /\ tasks["c1"].reader = "reading"
    /\ tasks["c1"].frames > 0
    /\ ~tasks["c1"].ok
    /\ tasks["c1"].broadcasts = 1
    /\ tasks["c2"].reader # "reading"

\* Bob's reader has taken a GetTransactionToSign on a session in progress.
C27_WitnessGetOrSigned ==
    /\ last.op = "get_or_signed"
    /\ last.pre.state # DefaultTradeState

\* C28: a frame that is no command leaves the session and every queue as
\* it found them, makes no broadcast and leaves the reader reading; a reader
\* ends only between two frames.
C28_UnknownFrameIgnored ==
    /\ last.op = "ignored" =>
           /\ Found(sessions, last.session) = last.pre
           /\ channels = last.chans
           /\ tasks[last.conn].pc = "running"
           /\ tasks[last.conn].reader = "reading"
    /\ \A c \in ConnectionIds :
           tasks[c].reader = "exited" =>
               (tasks[c].frames = 0 \/ tasks[c].broadcasts = 1)

\* A frame is ignored on a session in progress while a queue holds messages.
C28_Witness ==
    /\ last.op = "ignored"
    /\ last.pre.state # DefaultTradeState
    /\ \E d \in last.pre.ws_clients : channels[d].buf # <<>>

\* C29: a session that a call found is still in the registry after it; a
\* call other than add_client on an unknown id creates nothing; the trade
\* state is the same after remove_client, also of the last connection, and
\* after the add_client of a later connection.
C29_RegistryOnlyGrows ==
    /\ last.pre.exists => last.session \in DOMAIN sessions
    /\ (last.op \notin {"init", "add_client"} /\ ~last.pre.exists) =>
           last.session \notin DOMAIN sessions
    /\ (last.op \in {"add_client", "remove_client"} /\ last.pre.exists) =>
           Post = Pre

\* A connection registers on a session that has moved on and that its last
\* connection has left.
C29_Witness ==
    /\ last.op = "add_client"
    /\ last.pre.exists
    /\ last.pre.ws_clients = {}
    /\ Pre # DefaultTradeState
    /\ Pre.items # EmptyMap

\* A trade call on an id that no connection has registered.
C29_WitnessUnknown ==
    /\ last.op \in {"add_tokens_offer", "withdraw_tokens", "accept_trade"}
    /\ ~last.pre.exists
    /\ last.amount >= 0

\* create_transaction returned a transaction.
Built == Created /\ tx.result = "Ok"

\* The residual offers of the first user, of the second, and of both.
ResidualFirst == Cardinality(DOMAIN tx.out1)
ResidualSecond == Cardinality(DOMAIN tx.out2)
Residual == ResidualFirst + ResidualSecond

\* The party whose offer stands at index i, its counterparty, and the mint
\* that the account list names at index i.
Offering(i) == IF i <= ResidualFirst THEN tx.users[1] ELSE tx.users[2]
Receiving(i) == IF i <= ResidualFirst THEN tx.users[2] ELSE tx.users[1]
ResidueOf(i) == IF i <= ResidualFirst THEN tx.out1 ELSE tx.out2
MintAt(i) == tx.transaction.accounts[2 + i].pubkey[2]

\* C30: with n residual offers the instruction lists user1 and user2 as
\* writable signers, then n mints read-only, then n sender and n receiver
\* token accounts writable, none of them signers; its data are the n
\* amounts in the same order; at each index the sender account is that of
\* the party offering that amount of that mint and the receiver account the
\* counterparty's; user1's offers come first, each residual offer appears
\* once, and user1 pays the fee.
C30_InstructionLayout ==
    Built =>
        LET accounts == tx.transaction.accounts
            n == Residual
        IN  /\ Len(accounts) = 2 + 3 * n
            /\ accounts[1] = [pubkey |-> <<tx.users[1], None>>,
                              is_signer |-> TRUE, is_writable |-> TRUE]
            /\ accounts[2] = [pubkey |-> <<tx.users[2], None>>,
                              is_signer |-> TRUE, is_writable |-> TRUE]
            /\ Len(tx.transaction.data) = n
            /\ \A i \in 1..n :
                   /\ accounts[2 + i] =
                          [pubkey |-> <<None, MintAt(i)>>,
                           is_signer |-> FALSE, is_writable |-> FALSE]
                   /\ accounts[2 + n + i] =
                          [pubkey |-> <<Offering(i), MintAt(i)>>,
                           is_signer |-> FALSE, is_writable |-> TRUE]
                   /\ accounts[2 + 2 * n + i] =
                          [pubkey |-> <<Receiving(i), MintAt(i)>>,
                           is_signer |-> FALSE, is_writable |-> TRUE]
                   /\ MintAt(i) \in DOMAIN ResidueOf(i)
                   /\ tx.transaction.data[i] = ResidueOf(i)[MintAt(i)]
            /\ {MintAt(i) : i \in 1..ResidualFirst} = DOMAIN tx.out1
            /\ {MintAt(i) : i \in (ResidualFirst + 1)..n} = DOMAIN tx.out2
            /\ tx.transaction.payer = <<tx.users[1], None>>

\* A transaction for a residue on each side, after a common mint cancelled.
C30_Witness ==
    /\ Built
    /\ ResidualFirst > 0
    /\ ResidualSecond > 0
    /\ \E t \in Common : tx.in1[t] > 0 /\ tx.in2[t] > 0

\* A transaction for two residual offers of the second user alone.
C30_WitnessOneSided ==
    /\ Built
    /\ ResidualFirst = 0
    /\ ResidualSecond = 2

\* ------------------------------------------------------------- C31 .. C39

\* C31: in every reachable state of every session user_acted is set exactly
\* when the status is OneUserAccepted; in Trading and in Accepted it is None.
C31_ActedIffOneAccepted ==
    \A s \in DOMAIN sessions :
        LET state == sessions[s].state IN
        /\ state.user_acted # None <=> state.status = "OneUserAccepted"
        /\ state.status \in {"Trading", "Accepted"} => state.user_acted = None

\* The second of two acceptances completed the trade and cleared the record.
C31_Witness ==
    /\ Acceptance
    /\ Pre.status = "OneUserAccepted"
    /\ Pre.user_acted # None
    /\ Post.status = "Accepted"
    /\ Post.user_acted = None

\* An offer reverted an acceptance.
C31_WitnessReverted ==
    /\ Offer
    /\ last.result = "Ok"
    /\ Pre.status = "OneUserAccepted"
    /\ Post.status = "Trading"
    /\ Post.user_acted = None

AcceptanceStep(a, b, call) ==
    /\ (b.status = "OneUserAccepted" /\ a.status # "OneUserAccepted")
           => /\ call.op = "accept_trade"
              /\ call.result = "Ok"
              /\ b.user_acted = call.user
              /\ b.items = a.items
    /\ (a.status = "OneUserAccepted" /\ b.status = "OneUserAccepted")
           => b = a
    /\ (b.status = "Accepted" /\ a.status # "Accepted")
           => /\ a.status = "OneUserAccepted"
              /\ call.op = "accept_trade"
              /\ call.result = "Ok"
              /\ call.user # a.user_acted
              /\ b.items = a.items
    /\ (/\ a.status = "OneUserAccepted"
        /\ call.op \in {"add_tokens_offer", "withdraw_tokens"}
        /\ call.result = "Ok"
        /\ call.amount > 0)
           => b.status = "Trading" /\ b.user_acted = None

\* C33: a session reaches Accepted only by a successful accept_trade of a
\* user other than the one who accepted first, with no successful
\* positive-amount offer or withdrawal in between (each such call puts the
\* session back to Trading), so the offers at Accepted are the offers in place
\* at the first acceptance.
C33_AcceptedOnUnchangedOffers ==
    [][\A s \in DOMAIN sessions \cap DOMAIN sessions' :
           last'.session = s
               => AcceptanceStep(sessions[s].state, sessions'[s].state, last')]_vars

\* A second user accepted the offers the first one had accepted.
C33_Witness ==
    /\ Acceptance
    /\ last.result = "Ok"
    /\ Pre.status = "OneUserAccepted"
    /\ Pre.user_acted # last.user
    /\ Post.status = "Accepted"
    /\ Post.items = Pre.items
    /\ \E u \in DOMAIN Post.items : Post.items[u] # EmptyMap

\* A withdrawal after the first acceptance put the session back to Trading.
C33_WitnessReverted ==
    /\ Withdrawal
    /\ last.result = "Ok"
    /\ last.amount > 0
    /\ Pre.status = "OneUserAccepted"
    /\ Post.status = "Trading"

\* C34: the set of user keys of a session's offers only grows, and once it
\* holds two users it never changes again: no operation removes a user key,
\* and no third user becomes a party, whatever the two withdraw and whoever
\* disconnects.
C34_PartiesOnlyGrow ==
    [][\A s \in DOMAIN sessions :
           /\ s \in DOMAIN sessions'
           /\ DOMAIN sessions[s].state.items \subseteq DOMAIN sessions'[s].state.items
           /\ Cardinality(DOMAIN sessions[s].state.items) = 2
                  => DOMAIN sessions'[s].state.items = DOMAIN sessions[s].state.items]_vars

\* Both parties have withdrawn everything and the third user is still refused.
C34_Witness ==
    /\ Offer
    /\ last.result = "TooManyParties"
    /\ Cardinality(DOMAIN Pre.items) = 2
    /\ \A u \in DOMAIN Pre.items : Pre.items[u] = EmptyMap
    /\ DOMAIN Post.items = DOMAIN Pre.items

\* The last connection has left and the two parties are still the parties.
C34_WitnessDisconnected ==
    /\ Offer
    /\ last.result = "TooManyParties"
    /\ last.pre.ws_clients = {}
    /\ Cardinality(DOMAIN Post.items) = 2

\* What the caller offers of the call's mint when the call has returned.
NowOffered ==
    IF last.user \in DOMAIN Post.items
    THEN AmountOf(Post.items[last.user], last.mint) ELSE 0

\* A successful offer of a positive amount.
Offered == Offer /\ last.result = "Ok" /\ last.amount > 0

\* C36 (as stated): a successful offer of a positive amount never lowers the
\* amount of the mint the user already offers, whatever the cached balance
\* has become since the previous offer.
C36_OfferNeverLowers == Offered => NowOffered >= HadOffered

\* C36 (amended): a successful offer of a positive amount leaves no less than
\* the user offered when the balance the call read is no less than that, and
\* lowers the offer to that balance (zero on a miss) when the balance has
\* fallen below what the user offered.
C36_LoweredOnlyToBalance ==
    Offered =>
        /\ last.available >= HadOffered => NowOffered >= HadOffered
        /\ last.available < HadOffered => NowOffered = last.available

\* The cache holds a lower balance than the user offers: the offer drops.
C36_Witness ==
    /\ Offered
    /\ last.cached
    /\ last.available < HadOffered
    /\ NowOffered = last.available
    /\ NowOffered < HadOffered

\* The balance allows it: the offer grows.
C36_WitnessGrows ==
    /\ Offered
    /\ HadOffered > 0
    /\ NowOffered > HadOffered

\* A call that found no session under its id.
OnUnknownSession(op) == last.op = op /\ ~last.pre.exists

\* C37: add_tokens_offer and withdraw_tokens with a positive amount, and
\* accept_trade, on a session id that is not in the registry, each fail with
\* UnknownSession.
C37_UnknownSessionFails ==
    /\ (OnUnknownSession("add_tokens_offer") /\ last.amount > 0)
           => last.result = "UnknownSession"
    /\ (OnUnknownSession("withdraw_tokens") /\ last.amount > 0)
           => last.result = "UnknownSession"
    /\ OnUnknownSession("accept_trade") => last.result = "UnknownSession"

\* cancel_out_trade_tokens has returned <<tx.out1, tx.out2>> for the pair
\* <<tx.in1, tx.in2>>.
Returned == tx.stage \in {"cancelled", "reapplied", "swapped"}

\* C39: cancel_out_trade_tokens keeps the net flow of every mint (an absent
\* entry counting as 0), leaves at most one of the two residues of a mint
\* present, and no residue exceeds the amount that party offered.
C39_NetFlowPreserved ==
    Returned =>
        /\ \A t \in CancelMints :
               AmountOf(tx.out1, t) - AmountOf(tx.out2, t)
                   = AmountOf(tx.in1, t) - AmountOf(tx.in2, t)
        /\ DOMAIN tx.out1 \cap DOMAIN tx.out2 = {}
        /\ \A t \in DOMAIN tx.out1 : t \in DOMAIN tx.in1 /\ tx.out1[t] <= tx.in1[t]
        /\ \A t \in DOMAIN tx.out2 : t \in DOMAIN tx.in2 /\ tx.out2[t] <= tx.in2[t]

\* Both parties offer a mint, the first more of it: the first keeps the
\* difference and the second nothing, and another mint goes the other way.
C39_Witness ==
    /\ tx.stage = "cancelled"
    /\ \E t \in DOMAIN tx.in1 \cap DOMAIN tx.in2 :
           /\ tx.in2[t] > 0
           /\ tx.in1[t] > tx.in2[t]
           /\ AmountOf(tx.out1, t) = tx.in1[t] - tx.in2[t]
           /\ t \notin DOMAIN tx.out2
    /\ \E t \in DOMAIN tx.out2 : tx.out2[t] > 0

\* The same for the pair taken the other way round.
C39_WitnessSwapped ==
    /\ tx.stage = "swapped"
    /\ \E t \in DOMAIN tx.in1 \cap DOMAIN tx.in2 :
           /\ tx.in1[t] > 0
           /\ tx.in2[t] > tx.in1[t]
           /\ AmountOf(tx.out2, t) = tx.in2[t] - tx.in1[t]
           /\ t \notin DOMAIN tx.out1

\* The operations of the engine that take a session id.
EngineOps ==
    {"add_client", "remove_client", "add_tokens_offer", "withdraw_tokens",
     "accept_trade", "broadcast_current_state"}

\* C38: an engine operation addressed to one session leaves every other
\* session of the registry as it was: its offers, user_acted and status, its
\* client map, and the outbound queues of its connections.
C38_OtherSessionsUntouched ==
    [][last'.op \in EngineOps =>
           \A s \in DOMAIN sessions \ {last'.session} :
               /\ s \in DOMAIN sessions'
               /\ sessions'[s] = sessions[s]
               /\ \A c \in sessions[s].ws_clients : channels'[c] = channels[c]]_vars

\* The other session of the last call: one that exists, whose state is not
\* the default one, and whose connection holds a queued update.
OtherSessionBusy ==
    \E s \in DOMAIN sessions \ {last.session} :
        /\ sessions[s].state # DefaultTradeState
        /\ \E c \in sessions[s].ws_clients :
               /\ ~channels[c].closed
               /\ channels[c].buf # <<>>
               /\ channels[c] = last.chans[c]

\* A broadcast reached the connection of its own session while the other
\* session had a connection with room in its queue.
C38_Witness ==
    /\ Broadcast
    /\ last.pre.exists
    /\ OtherSessionBusy
    /\ \E c \in last.pre.ws_clients : Len(channels[c].buf) > Len(last.chans[c].buf)
    /\ \E s \in DOMAIN sessions \ {last.session} :
           \E c \in sessions[s].ws_clients : Len(channels[c].buf) < ChannelCapacity

\* An offer changed its own session beside another that a user has accepted.
C38_WitnessOffer ==
    /\ Offer
    /\ last.result = "Ok"
    /\ Post # Pre
    /\ OtherSessionBusy
    /\ \E s \in DOMAIN sessions \ {last.session} :
           sessions[s].state.status = "OneUserAccepted"

\* The updates queued for c, and for each the number of changes the session
\* had seen when it was enqueued.
Queued(c) == channels[c].buf
StampsOf(c) == tasks[c].stamps

\* C35: every connection is sent its updates in the order in which their
\* states were produced, whatever the interleaving of the connections' calls
\* and broadcasts: each queue, which the writer empties from its head, holds
\* its updates oldest state first, and every queued update is the snapshot of
\* the state the session had when it was enqueued (the same snapshot in every
\* queue, and for the latest state the session's current one).
C35_UpdatesInStateOrder ==
    \A c \in ConnectionIds :
        /\ Len(StampsOf(c)) = Len(Queued(c))
        /\ \A i \in DOMAIN StampsOf(c) :
               /\ StampsOf(c)[i] <= Version(tasks)
               /\ \A j \in DOMAIN StampsOf(c) :
                      i < j => StampsOf(c)[i] <= StampsOf(c)[j]
               /\ StampsOf(c)[i] = Version(tasks)
                      => Queued(c)[i] = TradeStateUpdate(sessions[WsSession(c)].state)
               /\ \A d \in ConnectionIds : \A j \in DOMAIN StampsOf(d) :
                      StampsOf(c)[i] = StampsOf(d)[j] => Queued(c)[i] = Queued(d)[j]

\* Two updates of different states wait in one queue, the older one first,
\* and the other connection's call has changed the session.
C35_Witness ==
    \E c \in ConnectionIds :
        /\ Len(StampsOf(c)) >= 2
        /\ StampsOf(c)[1] < StampsOf(c)[2]
        /\ Queued(c)[1] # Queued(c)[2]
        /\ \E d \in ConnectionIds \ {c} : tasks[d].changes > 0

\* Both connections hold the update of the latest state behind an older one.
C35_WitnessBoth ==
    \A c \in ConnectionIds :
        /\ Len(StampsOf(c)) >= 2
        /\ StampsOf(c)[1] < StampsOf(c)[2]
        /\ StampsOf(c)[2] = Version(tasks)

====
